---- MODULE Spec2Model ----
(***************************************************************************)
(* A model of the brainfuck compiler: the lexer (src/src/lex.rs), the      *)
(* recursive-descent parser (src/src/ast.rs), the QBE code generator       *)
(* (src/src/gen.rs), the compile pipeline (src/src/lib.rs), and the        *)
(* execution of the generated procedure under QBE's instruction semantics. *)
(***************************************************************************)
EXTENDS Integers, Sequences, FiniteSets, TLC

VARIABLES
    pc,        \* position in the pipeline
    input,     \* lex: the source text, a sequence of characters
    iter,      \* lex: LexerState.iter, the index of the character peek() sees
    tokens,    \* lex: the Vec<Token> being built; the parser's input
    presult,   \* ast: the Result<Ast, Error> returned by ast::parse
    prog,      \* the Ast handed to QbeGenerator::gen
    generator, \* gen: the QbeGenerator (label_counter, tmp_counter, tape_len)
    main,      \* gen: the qbe::Function `main` under construction
    gi,        \* gen: index of the next top-level statement generate_block lowers
    handed,    \* history: the temporary and label numbers handed out by this gen call
    fresh,     \* history: no gen call has used this generator since new()
    calls,     \* history: the completed gen calls, [fresh, text]
    code,      \* run: the generated procedure being executed
    ip,        \* run: the next item, as block index b and item index i
    regs,      \* run: the values of the temporaries assigned so far
    mem,       \* run: the 32-bit cells touched so far, by address
    stdout,    \* run: the bytes written to file descriptor 1
    status,    \* run: "idle", "running", "returned" or "fault"
    retval,    \* run: the value the procedure returned
    steps,     \* run: instructions executed
    mem0,      \* history: what each cell held when first read before any store
    inlog      \* history: what each read call delivered (-1: nothing)

lexvars == <<input, iter, tokens>>
genvars == <<prog, generator, main, gi, handed, fresh, calls>>
runvars == <<code, ip, regs, mem, stdout, status, retval, steps, mem0, inlog>>
vars == <<pc, lexvars, presult, genvars, runvars>>

(***************************************************************************)
(* Bounds of the model.                                                    *)
(***************************************************************************)
MaxInput == 4      \* longest source text given to lex
MaxTokens == 4     \* longest token sequence given directly to ast::parse
MaxProg == 4       \* longest token sequence whose tree is given to QbeGenerator::gen
MaxCalls == 2      \* gen calls made on one tree
MaxRun == 5        \* longest token sequence whose compiled procedure is executed
MaxSteps == 24     \* instructions executed in one run

SeqsUpTo(S, n) == UNION {[1..k -> S] : k \in 0..n}

(***************************************************************************)
(* lex.rs: tokens                                                          *)
(***************************************************************************)
MoveL(count) == [kind |-> "MoveL", count |-> count]
MoveR(count) == [kind |-> "MoveR", count |-> count]
Inc(count) == [kind |-> "Inc", count |-> count]
Dec(count) == [kind |-> "Dec", count |-> count]
Read == [kind |-> "Read"]
Write == [kind |-> "Write"]
JmpZero == [kind |-> "JmpZero"]
JmpNoZero == [kind |-> "JmpNoZero"]

\* The eight meaningful characters, and two that are not.
Symbols == {"<", ">", "+", "-", ".", ",", "[", "]"}
Chars == Symbols \cup {"a", " "}

\* Option<Token> together with the iterator position the call leaves behind.
Some(token, i) == [some |-> TRUE, token |-> token, iter |-> i]
None(i) == [some |-> FALSE, iter |-> i]

\* `let mut count = 0; while let Some(c) = peek() { count += 1; next(); }`
RECURSIVE ConsumeRun(_, _, _, _)
ConsumeRun(s, i, c, count) ==
    IF i <= Len(s) /\ s[i] = c
    THEN ConsumeRun(s, i + 1, c, count + 1)
    ELSE [iter |-> i, count |-> count]

TakeRunFromOne(s, i, c) == ConsumeRun(s, i, c, 1)

TakeRun(s, i, c) == ConsumeRun(s, i, c, 0)

\* The `_` arm's loop: advance while the peeked character is not a symbol.
RECURSIVE SkipOther(_, _)
SkipOther(s, i) ==
    IF i <= Len(s) /\ s[i] \notin Symbols THEN SkipOther(s, i + 1) ELSE i

RECURSIVE next(_, _)
next(s, i) ==
    IF i > Len(s) THEN None(i)
    ELSE CASE s[i] = "<" -> LET r == TakeRun(s, i, "<") IN Some(MoveL(r.count), r.iter)
           [] s[i] = ">" -> LET r == TakeRun(s, i, ">") IN Some(MoveR(r.count), r.iter)
           [] s[i] = "+" -> LET r == TakeRun(s, i, "+") IN Some(Inc(r.count), r.iter)
           [] s[i] = "-" -> LET r == TakeRun(s, i, "-") IN Some(Dec(r.count), r.iter)
           [] s[i] = "." -> Some(Write, i + 1)
           [] s[i] = "," -> Some(Read, i + 1)
           [] s[i] = "[" -> Some(JmpZero, i + 1)
           [] s[i] = "]" -> Some(JmpNoZero, i + 1)
           [] OTHER -> next(s, SkipOther(s, i))

\* lex as a function: the loop `while let Some(token) = next(&mut state)`.
RECURSIVE LexFrom(_, _, _)
LexFrom(s, i, acc) ==
    LET r == next(s, i) IN
    IF r.some THEN LexFrom(s, r.iter, Append(acc, r.token)) ELSE acc

lex(s) == LexFrom(s, 1, <<>>)

(***************************************************************************)
(* ast.rs: the parser                                                      *)
(***************************************************************************)
EndOfInput == [kind |-> "EndOfInput"]
UnexpectedToken(t) == [kind |-> "UnexpectedToken", token |-> t]

\* ParserResult: Ok((rest, node)), Err(ParserError::Err(e)), Err(ParserError::Failure(e))
POk(rest, node) == [ok |-> TRUE, rest |-> rest, node |-> node]
PErr(e) == [ok |-> FALSE, sev |-> "Err", e |-> e]
PFailure(e) == [ok |-> FALSE, sev |-> "Failure", e |-> e]

\* Statement and NodeBlock values (Attr has no fields and is left out).
StMoveL(n) == [kind |-> "MoveL", n |-> n]
StMoveR(n) == [kind |-> "MoveR", n |-> n]
StAdd(n) == [kind |-> "Add", n |-> n]
StSub(n) == [kind |-> "Sub", n |-> n]
StRead == [kind |-> "Read"]
StWrite == [kind |-> "Write"]
StLoop(block) == [kind |-> "Loop", block |-> block]
NodeBlock(stats) == [stats |-> stats]

take_one_of_keep(in, of) ==
    IF in = <<>> THEN PErr(EndOfInput)
    ELSE IF Head(in) = of THEN POk(in, of)
    ELSE PErr(UnexpectedToken(Head(in)))

take_one_of(in, of) ==
    IF in = <<>> THEN PErr(EndOfInput)
    ELSE IF Head(in) = of THEN POk(Tail(in), of)
    ELSE PErr(UnexpectedToken(Head(in)))

RECURSIVE NodeBlockLoop(_, _)
RECURSIVE NodeStatementParse(_)

\* The `loop { match NodeStatement::parse(input) ... }` of NodeBlock::parse.
NodeBlockLoop(in, stats) ==
    LET r == NodeStatementParse(in) IN
    IF r.ok THEN NodeBlockLoop(r.rest, Append(stats, r.node))
    ELSE IF r.sev = "Failure" THEN PFailure(r.e)
    ELSE POk(in, NodeBlock(stats))

NodeBlockParse(in) == NodeBlockLoop(in, <<>>)

NodeStatementParse(in) ==
    IF in = <<>> THEN PErr(EndOfInput)
    ELSE LET t == Head(in) IN
         CASE t.kind = "MoveL" -> POk(Tail(in), StMoveL(t.count))
           [] t.kind = "MoveR" -> POk(Tail(in), StMoveR(t.count))
           [] t.kind = "Read" -> POk(Tail(in), StRead)
           [] t.kind = "Write" -> POk(Tail(in), StWrite)
           [] t.kind = "Inc" -> POk(Tail(in), StAdd(t.count))
           [] t.kind = "Dec" -> POk(Tail(in), StSub(t.count))
           [] t.kind = "JmpZero" ->
                LET b == NodeBlockParse(Tail(in)) IN
                IF ~b.ok THEN b
                ELSE LET c == take_one_of(b.rest, JmpNoZero) IN
                     IF ~c.ok THEN c
                     ELSE POk(c.rest, StLoop(b.node))
           [] OTHER -> PErr(UnexpectedToken(t))

\* Result<Ast, Error>
Ok(ast) == [ok |-> TRUE, ast |-> ast]
Err(e) == [ok |-> FALSE, e |-> e]

parse_reporting_token(in) ==
    LET r == NodeBlockParse(in) IN
    IF ~r.ok THEN Err(r.e)
    ELSE IF r.rest # <<>> THEN Err(UnexpectedToken(Head(r.rest)))
    ELSE Ok(r.node)

parse(in) ==
    LET r == NodeBlockParse(in) IN
    IF ~r.ok THEN Err(r.e)
    ELSE IF r.rest # <<>> THEN Err(EndOfInput)
    ELSE Ok(r.node)

(***************************************************************************)
(* gen.rs: the values of the qbe crate that the generator builds           *)
(***************************************************************************)
Temporary(name) == [k |-> "tmp", name |-> name]
Const(n) == [k |-> "const", n |-> n]

IAdd(a, b) == [op |-> "add", a |-> a, b |-> b]
ISub(a, b) == [op |-> "sub", a |-> a, b |-> b]
ILoad(ty, src) == [op |-> "load", ty |-> ty, src |-> src]
IStore(ty, dest, value) == [op |-> "store", ty |-> ty, dest |-> dest, value |-> value]
ICall(name, args) == [op |-> "call", name |-> name, args |-> args]
IJnz(v, ifnz, ifz) == [op |-> "jnz", v |-> v, ifnz |-> ifnz, ifz |-> ifz]
IRet(v) == [op |-> "ret", v |-> v]
IAlloc8(n) == [op |-> "alloc8", n |-> n]
ICopy(v) == [op |-> "copy", v |-> v]
ICmp(ty, cmp, a, b) == [op |-> "cmp", ty |-> ty, cmp |-> cmp, a |-> a, b |-> b]

\* qbe::Statement
Assign(temp, ty, instr) == [assign |-> TRUE, temp |-> temp, ty |-> ty, instr |-> instr]
Volatile(instr) == [assign |-> FALSE, instr |-> instr]

\* qbe::Function::new(Linkage::public(), "main", Vec::new(), Some(Type::Word))
FunctionNew ==
    [linkage |-> "public", name |-> "main", arguments |-> <<>>,
     return_ty |-> "w", blocks |-> <<>>]

add_block(func, label) ==
    [func EXCEPT !.blocks = Append(@, [label |-> label, items |-> <<>>])]

\* Both append to the last block of the function.
PushItem(func, item) ==
    [func EXCEPT !.blocks[Len(func.blocks)].items = Append(@, item)]
add_instr(func, instr) == PushItem(func, Volatile(instr))
assign_instr(func, temp, ty, instr) == PushItem(func, Assign(temp, ty, instr))

\* format!("{}\n", module) for the module holding the one function.  The
\* text is the qbe crate's rendering of this structure, of which it prints
\* every label, temporary name and operand.
ModuleText(func) == [functions |-> <<func>>]

(***************************************************************************)
(* gen.rs: QbeGenerator                                                    *)
(* A context ctx is the generator (self), the function being built (func)  *)
(* and the history of the numbers handed out (handed).                     *)
(***************************************************************************)
tape_len == 16 * 30000

QbeGenerator_new == [tmp_counter |-> 0, label_counter |-> 0, tape_len |-> tape_len]

NoneHanded == [tmps |-> <<>>, labels |-> <<>>]

generate_ptr == Temporary("ptr")
tape_val == Temporary("tape")

generate_tmp_same(ctx) ==
    LET c == ctx.self.tmp_counter IN
    [ctx |-> [ctx EXCEPT !.handed.tmps = Append(@, "v" \o ToString(c))],
     val |-> Temporary("v" \o ToString(c))]

generate_tmp(ctx) ==
    LET c == ctx.self.tmp_counter IN
    [ctx |-> [ctx EXCEPT !.self.tmp_counter = c + 1,
                         !.handed.tmps = Append(@, "v" \o ToString(c))],
     val |-> Temporary("v" \o ToString(c))]

generate_label(ctx, prefix) ==
    LET c == ctx.self.label_counter IN
    [ctx |-> [ctx EXCEPT !.self.label_counter = c + 1,
                         !.handed.labels = Append(@, prefix \o ToString(c))],
     val |-> prefix \o ToString(c)]

generate_runtime(ctx) ==
    [ctx EXCEPT !.func =
        assign_instr(
            assign_instr(@, tape_val, "l", IAlloc8(ctx.self.tape_len)),
            generate_ptr, "l", ICopy(tape_val))]

generate_bounds_check(ctx) ==
    LET cont == generate_label(ctx, "cont")
        halt == generate_label(cont.ctx, "halt")
        pred == generate_tmp(halt.ctx)
        offset == generate_tmp(pred.ctx)
        in_bounds == generate_tmp(offset.ctx)
        f1 == assign_instr(ctx.func, offset.val, "l", ISub(generate_ptr, tape_val))
        f2 == assign_instr(f1, in_bounds.val, "l",
                  ICmp("l", "sgt", Const(ctx.self.tape_len \div 2), offset.val))
        f3 == add_instr(f2, IJnz(in_bounds.val, cont.val, halt.val))
        f4 == add_block(f3, halt.val)
        f5 == add_instr(f4, IRet(Const(1)))
        f6 == add_block(f5, cont.val)
    IN  [in_bounds.ctx EXCEPT !.func = f6]

\* The MoveL and MoveR arms of generate_statement.  `*n as u64 * 8` stays far
\* below 2^64 for every count used here, so the product is exact.
generate_MoveL_unchecked(ctx, n) ==
    [ctx EXCEPT !.func =
        assign_instr(@, generate_ptr, "l", ISub(generate_ptr, Const(n * 8)))]

generate_MoveL(ctx, n) ==
    generate_bounds_check(
        [ctx EXCEPT !.func =
            assign_instr(@, generate_ptr, "l", ISub(generate_ptr, Const(n * 8)))])

generate_MoveR(ctx, n) ==
    generate_bounds_check(
        [ctx EXCEPT !.func =
            assign_instr(@, generate_ptr, "l", IAdd(generate_ptr, Const(n * 8)))])

\* The Add and Sub arms: load, add or subtract, store, all on one temporary.
generate_Add(ctx, n) ==
    LET tmp == generate_tmp(ctx)
        f1 == assign_instr(ctx.func, tmp.val, "w", ILoad("w", generate_ptr))
        f2 == assign_instr(f1, tmp.val, "w", IAdd(tmp.val, Const(n)))
        f3 == add_instr(f2, IStore("w", generate_ptr, tmp.val))
    IN  [tmp.ctx EXCEPT !.func = f3]

generate_Sub(ctx, n) ==
    LET tmp == generate_tmp(ctx)
        f1 == assign_instr(ctx.func, tmp.val, "w", ILoad("w", generate_ptr))
        f2 == assign_instr(f1, tmp.val, "w", ISub(tmp.val, Const(n)))
        f3 == add_instr(f2, IStore("w", generate_ptr, tmp.val))
    IN  [tmp.ctx EXCEPT !.func = f3]

generate_Read(ctx) ==
    [ctx EXCEPT !.func =
        add_instr(@, ICall("read",
            <<<<"w", Const(0)>>, <<"l", generate_ptr>>, <<"l", Const(1)>>>>))]

generate_Write(ctx) ==
    [ctx EXCEPT !.func =
        add_instr(@, ICall("write",
            <<<<"w", Const(1)>>, <<"l", generate_ptr>>, <<"l", Const(1)>>>>))]

\* The Loop arm before the body: load, jnz, and the begin block.
generate_Loop_head(func, tmp, begin, end) ==
    add_block(
        add_instr(
            assign_instr(func, tmp, "w", ILoad("w", generate_ptr)),
            IJnz(tmp, begin, end)),
        begin)

generate_Loop_tail_no_end_block(func, tmp, begin, end) ==
    add_instr(
        assign_instr(func, tmp, "w", ILoad("w", generate_ptr)),
        IJnz(tmp, begin, end))

generate_Loop_tail_swapped(func, tmp, begin, end) ==
    add_block(
        add_instr(
            assign_instr(func, tmp, "w", ILoad("w", generate_ptr)),
            IJnz(tmp, end, begin)),
        end)

\* The Loop arm after the body: reload, jnz, and the end block.
generate_Loop_tail(func, tmp, begin, end) ==
    add_block(
        add_instr(
            assign_instr(func, tmp, "w", ILoad("w", generate_ptr)),
            IJnz(tmp, begin, end)),
        end)

RECURSIVE generate_statement(_, _)
RECURSIVE generate_stats(_, _, _)

\* generate_block's `for stat in &block.stats`, from index i on.
generate_stats(ctx, stats, i) ==
    IF i > Len(stats) THEN ctx
    ELSE generate_stats(generate_statement(ctx, stats[i]), stats, i + 1)

generate_block(ctx, block) == generate_stats(ctx, block.stats, 1)

generate_statement(ctx, stat) ==
    CASE stat.kind = "MoveL" -> generate_MoveL(ctx, stat.n)
      [] stat.kind = "MoveR" -> generate_MoveR(ctx, stat.n)
      [] stat.kind = "Add" -> generate_Add(ctx, stat.n)
      [] stat.kind = "Sub" -> generate_Sub(ctx, stat.n)
      [] stat.kind = "Read" -> generate_Read(ctx)
      [] stat.kind = "Write" -> generate_Write(ctx)
      [] stat.kind = "Loop" ->
            LET c == ctx.self.label_counter
                begin == "loop" \o ToString(c)
                end == "end" \o ToString(c)
                c1 == [ctx EXCEPT !.self.label_counter = c + 1,
                                  !.handed.labels = @ \o <<begin, end>>]
                tmp == generate_tmp(c1)
                c2 == [tmp.ctx EXCEPT
                          !.func = generate_Loop_head(@, tmp.val, begin, end)]
                c3 == generate_block(c2, stat.block)
            IN  [c3 EXCEPT !.func = generate_Loop_tail(@, tmp.val, begin, end)]

\* gen up to the call of generate_block: the runtime block and the start block.
gen_begin(self) ==
    LET c0 == [self |-> self, func |-> add_block(FunctionNew, "runtime"),
               handed |-> NoneHanded]
        c1 == generate_runtime(c0)
    IN  [c1 EXCEPT !.func = add_block(@, "start")]

\* gen after generate_block: the final ret 0.
gen_end(ctx) == [ctx EXCEPT !.func = add_instr(@, IRet(Const(0)))]

\* QbeGenerator::gen as a whole: the generator it leaves and the text it returns.
gen(self, p) ==
    LET ctx == gen_end(generate_block(gen_begin(self), p)) IN
    [self |-> ctx.self, text |-> ModuleText(ctx.func), handed |-> ctx.handed]

(***************************************************************************)
(* The generated procedure at run time: QBE's instruction semantics.       *)
(* Addresses are measured from the base of the tape, so `%tape` holds 0    *)
(* and a negative address lies below the tape.  No value of type l that a  *)
(* run within MaxSteps can reach leaves the 64-bit range, so l arithmetic  *)
(* is exact; a value of type w is the signed reading of its 32 bits.       *)
(***************************************************************************)
TapeBase == 0
MaxInt32 == 2147483647
MinInt32 == (-MaxInt32) - 1

\* 32-bit wrapping add and sub of a constant 0 <= n <= MaxInt32.
AddW(x, n) == IF x > MaxInt32 - n THEN ((x - MaxInt32) + (n - MaxInt32)) - 2 ELSE x + n
SubW(x, n) == IF x < MinInt32 + n THEN ((x + MaxInt32) + (MaxInt32 - n)) + 2 ELSE x - n

\* The byte at the cell's address (little-endian), and the cell with that byte replaced.
LowByte(w) == w % 256
WithLowByte(w, b) == (w - (w % 256)) + b

\* What uninitialised stack memory may hold, and what a read call may deliver.
Garbage == {0, 1}
ReadResults == {-1, 65}

Value(v) == IF v.k = "const" THEN v.n ELSE regs[v.name]

SetReg(r, name, x) ==
    [n \in DOMAIN r \cup {name} |-> IF n = name THEN x ELSE r[n]]
SetCell(m, a, x) ==
    [c \in DOMAIN m \cup {a} |-> IF c = a THEN x ELSE m[c]]

\* Control reaches item i of block b: a block that has run out of items
\* falls through into the next declared block.
RECURSIVE Reach(_, _, _)
Reach(func, b, i) ==
    IF b <= Len(func.blocks) /\ i > Len(func.blocks[b].items)
    THEN Reach(func, b + 1, 1)
    ELSE [b |-> b, i |-> i]

BlockOf(func, label) == CHOOSE b \in 1..Len(func.blocks) : func.blocks[b].label = label

Running == pc = "run" /\ status = "running" /\ steps < MaxSteps /\ ip.b <= Len(code.blocks)
Item == code.blocks[ip.b].items[ip.i]
Advance == Reach(code, ip.b, ip.i + 1)

\* The bytes alloc8 reserved.
InAllocation(a) == a >= TapeBase /\ a < TapeBase + tape_len

IsAccess(it) == it.instr.op \in {"load", "store", "call"}
AccessAddress(it) ==
    CASE it.instr.op = "load" -> Value(it.instr.src)
      [] it.instr.op = "store" -> Value(it.instr.dest)
      [] it.instr.op = "call" -> Value(it.instr.args[2][2])

(***************************************************************************)
(* Inputs                                                                  *)
(***************************************************************************)
NoResult == [ok |-> FALSE, e |-> [kind |-> "NotRun"]]
NoAst == NodeBlock(<<>>)

\* Tokens handed directly to ast::parse (a public function over &[Token]).
ParseTokens ==
    {MoveL(1), MoveR(2), Inc(1), Dec(3), Read, Write, JmpZero, JmpNoZero}

\* The trees handed directly to QbeGenerator::gen: those ast::parse builds
\* from the token sequences of at most MaxProg of these tokens.
GenTokens ==
    {MoveL(1), MoveR(2), Inc(1), Dec(3), Read, Write, JmpZero, JmpNoZero}
\* The trees whose compiled procedure is executed.
RunTokens ==
    {MoveL(1), MoveR(29999), Dec(1), Read, Write, JmpZero, JmpNoZero}
Programs(toks, n) ==
    {parse(t).ast : t \in {u \in SeqsUpTo(toks, n) : parse(u).ok}}

LexIdle == input = <<>> /\ iter = 1 /\ tokens = <<>>
GenIdle ==
    /\ prog = NoAst
    /\ generator = QbeGenerator_new
    /\ main = FunctionNew
    /\ gi = 1
    /\ handed = NoneHanded
    /\ fresh = TRUE
    /\ calls = <<>>

RunIdle ==
    /\ code = FunctionNew
    /\ ip = [b |-> 1, i |-> 1]
    /\ regs = <<>>
    /\ mem = <<>>
    /\ stdout = <<>>
    /\ status = "idle"
    /\ retval = 0
    /\ steps = 0
    /\ mem0 = <<>>
    /\ inlog = <<>>

(***************************************************************************)
(* Actions: lexing (lex.rs)                                                *)
(***************************************************************************)
Init ==
    /\ pc = "lex"
    /\ input \in SeqsUpTo(Chars, MaxInput)
    /\ iter = 1
    /\ tokens = <<>>
    /\ presult = NoResult
    /\ GenIdle
    /\ RunIdle

\* One iteration of lex's loop in which next returns Some(token).
LexNext ==
    /\ pc = "lex"
    /\ LET r == next(input, iter) IN
       /\ r.some
       /\ tokens' = Append(tokens, r.token)
       /\ iter' = r.iter
    /\ UNCHANGED <<pc, input, presult, genvars, runvars>>

\* The iteration in which next returns None: lex returns tokens.
LexEnd ==
    /\ pc = "lex"
    /\ LET r == next(input, iter) IN
       /\ ~r.some
       /\ iter' = r.iter
    /\ pc' = "parse"
    /\ UNCHANGED <<input, tokens, presult, genvars, runvars>>

(***************************************************************************)
(* Actions: parsing (ast.rs)                                               *)
(***************************************************************************)
InitParse ==
    /\ pc = "parse"
    /\ input = <<>>
    /\ iter = 1
    /\ tokens \in SeqsUpTo(ParseTokens, MaxTokens)
    /\ presult = NoResult
    /\ GenIdle
    /\ RunIdle

Parse ==
    /\ pc = "parse"
    /\ presult' = parse(tokens)
    /\ pc' = "parsed"
    /\ UNCHANGED <<lexvars, genvars, runvars>>

\* compile's `.unwrap()` of the parse result: the tree, or a panic.
Unwrap ==
    /\ pc = "parsed"
    /\ IF presult.ok
       THEN prog' = presult.ast /\ pc' = "new"
       ELSE prog' = prog /\ pc' = "panic"
    /\ UNCHANGED <<lexvars, presult, generator, main, gi, handed, fresh, calls, runvars>>

(***************************************************************************)
(* Actions: code generation (gen.rs)                                       *)
(***************************************************************************)
InitGen ==
    /\ pc = "new"
    /\ LexIdle
    /\ presult = NoResult
    /\ prog \in Programs(GenTokens, MaxProg)
    /\ generator = QbeGenerator_new
    /\ main = FunctionNew
    /\ gi = 1
    /\ handed = NoneHanded
    /\ fresh = TRUE
    /\ calls = <<>>
    /\ RunIdle

New_keeping_counters ==
    /\ pc \in {"new", "generated"}
    /\ Len(calls) < MaxCalls
    /\ generator' = generator
    /\ fresh' = TRUE
    /\ pc' = "ready"
    /\ UNCHANGED <<lexvars, presult, prog, main, gi, handed, calls, runvars>>

\* QbeGenerator::new(): at the start, or for another gen call on the tree.
New ==
    /\ pc \in {"new", "generated"}
    /\ Len(calls) < MaxCalls
    /\ generator' = QbeGenerator_new
    /\ fresh' = TRUE
    /\ pc' = "ready"
    /\ UNCHANGED <<lexvars, presult, prog, main, gi, handed, calls, runvars>>

\* gen is entered, on a new generator or on the one the last call used:
\* the function is created and the runtime and start blocks are emitted.
GenBegin ==
    /\ pc \in {"ready", "generated"}
    /\ Len(calls) < MaxCalls
    /\ LET ctx == gen_begin(generator) IN
       /\ generator' = ctx.self
       /\ main' = ctx.func
       /\ handed' = ctx.handed
    /\ gi' = 1
    /\ pc' = "gen"
    /\ UNCHANGED <<lexvars, presult, prog, fresh, calls, runvars>>

\* generate_block lowers the next top-level statement, nested blocks included.
GenStatement ==
    /\ pc = "gen"
    /\ gi <= Len(prog.stats)
    /\ LET ctx == generate_statement(
                      [self |-> generator, func |-> main, handed |-> handed],
                      prog.stats[gi]) IN
       /\ generator' = ctx.self
       /\ main' = ctx.func
       /\ handed' = ctx.handed
    /\ gi' = gi + 1
    /\ UNCHANGED <<pc, lexvars, presult, prog, fresh, calls, runvars>>

\* gen adds `ret 0` and returns the module's text.
GenEnd ==
    /\ pc = "gen"
    /\ gi > Len(prog.stats)
    /\ LET ctx == gen_end([self |-> generator, func |-> main, handed |-> handed]) IN
       /\ main' = ctx.func
       /\ calls' = Append(calls, [fresh |-> fresh, text |-> ModuleText(ctx.func)])
    /\ fresh' = FALSE
    /\ pc' = "generated"
    /\ UNCHANGED <<lexvars, presult, prog, generator, gi, handed, runvars>>

(***************************************************************************)
(* Actions: running the generated procedure                                *)
(***************************************************************************)
\* A generated procedure is entered at its first block.
Entered(func) ==
    /\ code = func
    /\ ip = Reach(func, 1, 1)
    /\ regs = <<>>
    /\ mem = <<>>
    /\ stdout = <<>>
    /\ status = "running"
    /\ retval = 0
    /\ steps = 0
    /\ mem0 = <<>>
    /\ inlog = <<>>

\* The procedure under execution is the one compile produces for the tree:
\* gen on a new generator.
InitRun ==
    /\ pc = "run"
    /\ LexIdle
    /\ presult = NoResult
    /\ prog \in Programs(RunTokens, MaxRun)
    /\ generator = QbeGenerator_new
    /\ main = FunctionNew
    /\ gi = 1
    /\ handed = NoneHanded
    /\ fresh = TRUE
    /\ calls = <<>>
    /\ Entered(gen(QbeGenerator_new, prog).text.functions[1])

\* The text gen returned is compiled by the backend and the program is started.
RunStart ==
    /\ pc = "generated"
    /\ pc' = "run"
    /\ code' = calls[Len(calls)].text.functions[1]
    /\ ip' = Reach(calls[Len(calls)].text.functions[1], 1, 1)
    /\ status' = "running"
    /\ UNCHANGED <<lexvars, presult, genvars, regs, mem, stdout, retval, steps, mem0, inlog>>

Stepped == steps' = steps + 1 /\ ip' = Advance /\ UNCHANGED <<pc, lexvars, presult, genvars, code>>

\* alloc8: the tape's address; its bytes are not initialised.
ExecAlloc ==
    /\ Running /\ Item.assign /\ Item.instr.op = "alloc8"
    /\ regs' = SetReg(regs, Item.temp.name, TapeBase)
    /\ Stepped
    /\ UNCHANGED <<mem, stdout, status, retval, mem0, inlog>>

ExecCopy ==
    /\ Running /\ Item.assign /\ Item.instr.op = "copy"
    /\ regs' = SetReg(regs, Item.temp.name, Value(Item.instr.v))
    /\ Stepped
    /\ UNCHANGED <<mem, stdout, status, retval, mem0, inlog>>

\* add and sub, on 64 bits for type l and wrapping on 32 bits for type w.
ExecArith ==
    /\ Running /\ Item.assign /\ Item.instr.op \in {"add", "sub"}
    /\ LET a == Value(Item.instr.a)
           b == Value(Item.instr.b)
           r == IF Item.ty = "l"
                THEN (IF Item.instr.op = "add" THEN a + b ELSE a - b)
                ELSE (IF Item.instr.op = "add" THEN AddW(a, b) ELSE SubW(a, b))
       IN  regs' = SetReg(regs, Item.temp.name, r)
    /\ Stepped
    /\ UNCHANGED <<mem, stdout, status, retval, mem0, inlog>>

\* csgtl a, b: 1 if a > b as signed 64-bit values, else 0.
ExecCmp ==
    /\ Running /\ Item.assign /\ Item.instr.op = "cmp"
    /\ Item.instr.cmp = "sgt"
    /\ regs' = SetReg(regs, Item.temp.name,
                      IF Value(Item.instr.a) > Value(Item.instr.b) THEN 1 ELSE 0)
    /\ Stepped
    /\ UNCHANGED <<mem, stdout, status, retval, mem0, inlog>>

\* loadw: the cell's value; a cell never stored to holds whatever was there.
ExecLoad ==
    /\ Running /\ Item.assign /\ Item.instr.op = "load"
    /\ LET a == Value(Item.instr.src) IN
       IF a \in DOMAIN mem
       THEN /\ regs' = SetReg(regs, Item.temp.name, mem[a])
            /\ UNCHANGED <<mem, mem0>>
       ELSE \E g \in Garbage :
            /\ regs' = SetReg(regs, Item.temp.name, g)
            /\ mem' = SetCell(mem, a, g)
            /\ mem0' = SetCell(mem0, a, g)
    /\ Stepped
    /\ UNCHANGED <<stdout, status, retval, inlog>>

ExecStore ==
    /\ Running /\ ~Item.assign /\ Item.instr.op = "store"
    /\ mem' = SetCell(mem, Value(Item.instr.dest), Value(Item.instr.value))
    /\ Stepped
    /\ UNCHANGED <<regs, stdout, status, retval, mem0, inlog>>

\* call $read(w 0, l p, l 1): at most one byte of input lands at address p.
ExecRead ==
    /\ Running /\ ~Item.assign /\ Item.instr.op = "call" /\ Item.instr.name = "read"
    /\ \E r \in ReadResults :
       /\ inlog' = Append(inlog, r)
       /\ LET a == Value(Item.instr.args[2][2]) IN
          IF r = -1 THEN UNCHANGED <<mem, mem0>>
          ELSE IF a \in DOMAIN mem
          THEN mem' = SetCell(mem, a, WithLowByte(mem[a], r)) /\ mem0' = mem0
          ELSE \E g \in Garbage :
               /\ mem' = SetCell(mem, a, WithLowByte(g, r))
               /\ mem0' = SetCell(mem0, a, g)
    /\ Stepped
    /\ UNCHANGED <<regs, stdout, status, retval>>

\* call $write(w 1, l p, l 1): the byte at address p goes to the output.
ExecWrite ==
    /\ Running /\ ~Item.assign /\ Item.instr.op = "call" /\ Item.instr.name = "write"
    /\ LET a == Value(Item.instr.args[2][2]) IN
       IF a \in DOMAIN mem
       THEN stdout' = Append(stdout, LowByte(mem[a])) /\ UNCHANGED <<mem, mem0>>
       ELSE \E g \in Garbage :
            /\ stdout' = Append(stdout, LowByte(g))
            /\ mem' = SetCell(mem, a, g)
            /\ mem0' = SetCell(mem0, a, g)
    /\ Stepped
    /\ UNCHANGED <<regs, status, retval, inlog>>

ExecJnz ==
    /\ Running /\ ~Item.assign /\ Item.instr.op = "jnz"
    /\ LET l == IF Value(Item.instr.v) # 0 THEN Item.instr.ifnz ELSE Item.instr.ifz IN
       ip' = Reach(code, BlockOf(code, l), 1)
    /\ steps' = steps + 1
    /\ UNCHANGED <<pc, lexvars, presult, genvars, code, regs, mem, stdout, status,
                   retval, mem0, inlog>>

ExecRet ==
    /\ Running /\ ~Item.assign /\ Item.instr.op = "ret"
    /\ status' = "returned"
    /\ retval' = Value(Item.instr.v)
    /\ steps' = steps + 1
    /\ UNCHANGED <<pc, lexvars, presult, genvars, code, ip, regs, mem, stdout, mem0, inlog>>

\* An access outside the bytes alloc8 reserved may instead end the process.
Fault ==
    /\ Running /\ IsAccess(Item)
    /\ ~InAllocation(AccessAddress(Item))
    /\ status' = "fault"
    /\ steps' = steps + 1
    /\ UNCHANGED <<pc, lexvars, presult, genvars, code, ip, regs, mem, stdout, retval,
                   mem0, inlog>>

(***************************************************************************)
(* Specifications                                                          *)
(***************************************************************************)
NextLex == LexNext \/ LexEnd
SpecLex == Init /\ [][NextLex]_vars

NextParse == Parse
SpecParse == InitParse /\ [][NextParse]_vars

NextGen == New \/ GenBegin \/ GenStatement \/ GenEnd
SpecGen == InitGen /\ [][NextGen]_vars

NextRun ==
    \/ ExecAlloc \/ ExecCopy \/ ExecArith \/ ExecCmp \/ ExecLoad \/ ExecStore
    \/ ExecRead \/ ExecWrite \/ ExecJnz \/ ExecRet \/ Fault
SpecRun == InitRun /\ [][NextRun]_vars

Next == NextLex \/ Parse \/ Unwrap \/ NextGen \/ RunStart \/ NextRun
Spec == Init /\ [][Next]_vars

(***************************************************************************)
(* Properties of the lexer                                                 *)
(***************************************************************************)
Directional == {"<", ">", "+", "-"}
Single == {".", ",", "[", "]"}

\* Positions of s at which a maximal run of one directional character starts.
RunStarts(s) ==
    {i \in 1..Len(s) : s[i] \in Directional /\ (i = 1 \/ s[i - 1] # s[i])}

\* Length of the maximal run of s[i] that starts at i.
RunLength(s, i) ==
    Cardinality({j \in i..Len(s) : \A m \in i..j : s[m] = s[i]})

\* Positions that must each yield exactly one token.
Emitting(s) == RunStarts(s) \cup {i \in 1..Len(s) : s[i] \in Single}

TokenAt(s, i) ==
    CASE s[i] = "<" -> MoveL(RunLength(s, i))
      [] s[i] = ">" -> MoveR(RunLength(s, i))
      [] s[i] = "+" -> Inc(RunLength(s, i))
      [] s[i] = "-" -> Dec(RunLength(s, i))
      [] s[i] = "." -> Write
      [] s[i] = "," -> Read
      [] s[i] = "[" -> JmpZero
      [] s[i] = "]" -> JmpNoZero

\* The k-th smallest element of a set of positions.
Nth(E, k) == CHOOSE i \in E : Cardinality({j \in E : j < i}) = k - 1

Coalesced(s, toks) ==
    /\ Len(toks) = Cardinality(Emitting(s))
    /\ \A k \in 1..Len(toks) : toks[k] = TokenAt(s, Nth(Emitting(s), k))

\* C4: when lex returns, its tokens are, in source order, one token per
\* maximal run of identical directional characters carrying the run length
\* (so every count is >= 1), one count-less token per `.`, `,`, `[`, `]`,
\* and nothing for any other character, which also leaves the counts of the
\* tokens around it alone.
C4_RunLengthCoalescing ==
    pc = "parse" =>
        /\ Coalesced(input, tokens)
        /\ \A k \in 1..Len(tokens) :
              tokens[k].kind \in {"MoveL", "MoveR", "Inc", "Dec"} => tokens[k].count >= 1

\* A run of two, then an ignored character, then the same character again.
C4_Witness ==
    /\ pc = "parse"
    /\ input = <<"+", "+", "a", "+">>
    /\ tokens = <<Inc(2), Inc(1)>>

(***************************************************************************)
(* Properties of the parser                                                *)
(***************************************************************************)
Opens(toks, i) == Cardinality({j \in 1..i : toks[j] = JmpZero})
Closes(toks, i) == Cardinality({j \in 1..i : toks[j] = JmpNoZero})

\* Some `]` has no enclosing open loop.
StrayClose(toks) == \E i \in 1..Len(toks) : Closes(toks, i) > Opens(toks, i)

\* Some `[` is never closed.
UnmatchedOpen(toks) == Opens(toks, Len(toks)) > Closes(toks, Len(toks))

Balanced(toks) == ~StrayClose(toks) /\ ~UnmatchedOpen(toks)

Max(S) == CHOOSE x \in S : \A y \in S : y <= x

BracketDepth(toks) ==
    Max({0} \cup {Opens(toks, i) - Closes(toks, i) : i \in 1..Len(toks)})

RECURSIVE UnparseStats(_)
UnparseStat(st) ==
    CASE st.kind = "MoveL" -> <<MoveL(st.n)>>
      [] st.kind = "MoveR" -> <<MoveR(st.n)>>
      [] st.kind = "Add" -> <<Inc(st.n)>>
      [] st.kind = "Sub" -> <<Dec(st.n)>>
      [] st.kind = "Read" -> <<Read>>
      [] st.kind = "Write" -> <<Write>>
      [] st.kind = "Loop" -> <<JmpZero>> \o UnparseStats(st.block.stats) \o <<JmpNoZero>>

\* The token sequence a block stands for: its statements in order, each
\* loop as `[`, its child block, `]`.
UnparseStats(stats) ==
    IF stats = <<>> THEN <<>>
    ELSE UnparseStat(Head(stats)) \o UnparseStats(Tail(stats))

RECURSIVE LoopDepth(_)
LoopDepth(block) ==
    Max({0} \cup {1 + LoopDepth(block.stats[i].block) :
                    i \in {j \in 1..Len(block.stats) : block.stats[j].kind = "Loop"}})

\* C1: a token sequence with a stray `]` makes ast::parse fail with
\* UnexpectedToken carrying that `]`.
C1_StrayCloseUnexpectedToken ==
    (pc = "parsed" /\ StrayClose(tokens)) => presult = Err(UnexpectedToken(JmpNoZero))

\* C5: a balanced token sequence parses to Ok; the tree read back in order,
\* each loop as its brackets around its child block, is the input, and its
\* loop nesting depth is the bracket nesting depth.
C5_BalancedParses ==
    (pc = "parsed" /\ Balanced(tokens)) =>
        /\ presult.ok
        /\ UnparseStats(presult.ast.stats) = tokens
        /\ LoopDepth(presult.ast) = BracketDepth(tokens)

C5_Witness ==
    /\ pc = "parsed"
    /\ tokens = <<MoveL(1), JmpZero, MoveR(2), JmpNoZero>>
    /\ presult = Ok(NodeBlock(<<StMoveL(1), StLoop(NodeBlock(<<StMoveR(2)>>))>>))

\* C6: a token sequence with an unmatched `[` and no stray `]` makes
\* ast::parse fail with EndOfInput.
C6_UnmatchedOpenEndOfInput ==
    (pc = "parsed" /\ UnmatchedOpen(tokens) /\ ~StrayClose(tokens)) =>
        presult = Err(EndOfInput)

\* An unmatched `[` below another loop, with a token before it and after it.
C6_Witness ==
    /\ pc = "parsed"
    /\ tokens = <<Inc(1), JmpZero, JmpZero, Read>>
    /\ presult = Err(EndOfInput)

(***************************************************************************)
(* Properties of the code generator                                        *)
(***************************************************************************)
\* C3 as stated: any two gen calls on the same tree return identical text.
C3_AnyTwoCallsIdentical ==
    \A i, j \in 1..Len(calls) : calls[i].text = calls[j].text

\* C3, amended: two gen calls on the same tree, each on a newly constructed
\* generator, return identical text.
C3_FreshCallsIdentical ==
    \A i, j \in 1..Len(calls) :
        (calls[i].fresh /\ calls[j].fresh) => calls[i].text = calls[j].text

\* Two calls on new generators for a tree that uses temporaries and labels.
C3_Witness ==
    /\ Len(calls) = 2
    /\ calls[1].fresh /\ calls[2].fresh
    /\ prog = NodeBlock(<<StLoop(NodeBlock(<<StMoveR(2)>>)), StAdd(1)>>)
    /\ calls[1].text = calls[2].text

\* The function as one list: each block's label followed by its items.
RECURSIVE FlatBlocks(_)
FlatBlocks(blocks) ==
    IF blocks = <<>> THEN <<>>
    ELSE <<Volatile([op |-> "block", label |-> Head(blocks).label])>>
         \o Head(blocks).items \o FlatBlocks(Tail(blocks))
Flat(func) == FlatBlocks(func.blocks)

\* The Move statements of a block in traversal order, as the pointer update
\* each must produce.
RECURSIVE MoveUpdates(_)
MoveUpdates(stats) ==
    IF stats = <<>> THEN <<>>
    ELSE LET st == Head(stats) IN
         (CASE st.kind = "MoveL" ->
                  <<Assign(generate_ptr, "l", ISub(generate_ptr, Const(st.n * 8)))>>
            [] st.kind = "MoveR" ->
                  <<Assign(generate_ptr, "l", IAdd(generate_ptr, Const(st.n * 8)))>>
            [] st.kind = "Loop" -> MoveUpdates(st.block.stats)
            [] OTHER -> <<>>)
         \o MoveUpdates(Tail(stats))

IsPtrUpdate(it) == it.assign /\ it.temp = generate_ptr /\ it.instr.op \in {"add", "sub"}

\* The six items of a guard start at position i of the list F.
GuardAt(F, i) ==
    /\ i + 5 <= Len(F)
    /\ F[i].assign /\ F[i].ty = "l"
    /\ F[i].instr = ISub(generate_ptr, tape_val)
    /\ F[i + 1].assign /\ F[i + 1].ty = "l"
    /\ F[i + 1].instr = ICmp("l", "sgt", Const(tape_len \div 2), F[i].temp)
    /\ ~F[i + 2].assign /\ F[i + 2].instr.op = "jnz"
    /\ F[i + 2].instr.v = F[i + 1].temp
    /\ F[i + 3] = Volatile([op |-> "block", label |-> F[i + 2].instr.ifz])
    /\ F[i + 4] = Volatile(IRet(Const(1)))
    /\ F[i + 5] = Volatile([op |-> "block", label |-> F[i + 2].instr.ifnz])

\* An item that occurs only as part of a guard.
IsGuardItem(it) ==
    \/ it.instr.op = "cmp"
    \/ it.instr = IRet(Const(1))
    \/ it.instr = ISub(generate_ptr, tape_val)

GuardsPlaced(F, stats) ==
    LET U == {i \in 1..Len(F) : IsPtrUpdate(F[i])}
        G == {i \in 1..Len(F) : IsGuardItem(F[i])}
        M == MoveUpdates(stats)
    IN  /\ Cardinality(U) = Len(M)
        /\ \A k \in 1..Len(M) : F[Nth(U, k)] = M[k]
        /\ \A i \in U : GuardAt(F, i + 1)
        /\ G = UNION {{i + 1, i + 2, i + 5} : i \in U}

\* C7: the generated procedure holds exactly one guard per MoveL/MoveR of
\* the tree (nested ones included), right after that statement's pointer
\* update, in traversal order; nothing else emits any part of a guard.
C7_GuardPlacement ==
    pc = "generated" => GuardsPlaced(Flat(main), prog.stats)

\* A move inside a loop and a move after the loop.
C7_Witness ==
    /\ pc = "generated"
    /\ prog = NodeBlock(<<StLoop(NodeBlock(<<StMoveL(1)>>)), StMoveR(2)>>)
    /\ Cardinality({i \in 1..Len(Flat(main)) : GuardAt(Flat(main), i)}) = 2

NoDuplicates(seq) == \A i, j \in 1..Len(seq) : seq[i] = seq[j] => i = j

Labels(func) == [i \in 1..Len(func.blocks) |-> func.blocks[i].label]

IdsUnique ==
    /\ NoDuplicates(Labels(main))
    /\ NoDuplicates(handed.tmps)
    /\ NoDuplicates(<<"runtime", "start">> \o handed.labels)
    /\ \A i \in 1..Len(main.blocks) :
          main.blocks[i].label \in {"runtime", "start"}
                                    \cup {handed.labels[k] : k \in 1..Len(handed.labels)}

CountersGrow ==
    pc' # "ready" =>
        /\ generator'.tmp_counter >= generator.tmp_counter
        /\ generator'.label_counter >= generator.label_counter
        /\ generator'.tmp_counter - generator.tmp_counter
               = Len(handed'.tmps) - (IF pc' = "gen" /\ pc # "gen" THEN 0 ELSE Len(handed.tmps))

\* C8: within one gen call every block label is declared once, no temporary
\* name is handed out twice, and the two counters never decrease (the
\* temporary counter grows by one per name handed out).
C8_IdentifiersUnique == [](pc \in {"gen", "generated"} => IdsUnique) /\ [][CountersGrow]_vars

\* A loop nested in a loop, fully generated, on a generator used before.
C8_Witness ==
    /\ pc = "generated"
    /\ Len(calls) = 2 /\ ~calls[2].fresh
    /\ prog = NodeBlock(<<StLoop(NodeBlock(<<StLoop(NodeBlock(<<>>))>>))>>)
    /\ handed.tmps = <<"v2", "v3">>
    /\ Labels(main) = <<"runtime", "start", "loop2", "loop3", "end3", "end2">>

IsTerminator(it) == it.instr.op \in {"jnz", "ret"}

WellFormedBlocks(func) ==
    /\ \A b \in 1..Len(func.blocks) :
          \A i \in 1..Len(func.blocks[b].items) :
              LET it == func.blocks[b].items[i] IN
              /\ IsTerminator(it) => i = Len(func.blocks[b].items)
              /\ it.instr.op = "jnz" =>
                    \A l \in {it.instr.ifnz, it.instr.ifz} :
                        \E t \in 1..Len(func.blocks) : func.blocks[t].label = l
    /\ LET last == func.blocks[Len(func.blocks)] IN
       /\ last.items # <<>>
       /\ last.items[Len(last.items)] = Volatile(IRet(Const(0)))

\* C9: in the generated procedure a jnz or ret is always the last
\* instruction of its block, every jnz targets declared labels, and the
\* last block ends with ret 0.
C9_BlocksWellFormed ==
    pc = "generated" => WellFormedBlocks(main)

\* A loop around a move, then a write: blocks end in jnz, in ret, or fall through.
C9_Witness ==
    /\ pc = "generated"
    /\ prog = NodeBlock(<<StLoop(NodeBlock(<<StMoveR(2)>>)), StWrite>>)
    /\ Labels(main) = <<"runtime", "start", "loop0", "halt2", "cont1", "end0">>

(***************************************************************************)
(* Properties of the generated procedure at run time                       *)
(***************************************************************************)
InRange(p) == 0 <= p - TapeBase /\ p - TapeBase < tape_len \div 2

AtItem == pc = "run" /\ status = "running" /\ ip.b <= Len(code.blocks)

\* Control has just entered a guard's continuation block, the block that
\* follows the block holding only `ret 1`.
AfterGuard ==
    /\ ip.i = 1 /\ ip.b > 1
    /\ code.blocks[ip.b - 1].items = <<Volatile(IRet(Const(1)))>>

\* C2: execution continues past a pointer move's guard only with the pointer
\* inside the permitted range, 0 <= pointer - tape base < tape_len / 2, so
\* no load, store, read or write is executed at a pointer outside it.
C2_PointerStaysInRange ==
    (AtItem /\ (AfterGuard \/ IsAccess(Item))) => InRange(regs["ptr"])

\* The while-loop reading of a tree, on the machine's memory: cells of mem
\* by address, in the results of the read calls, in order.
RefUndefined(s) == [s EXCEPT !.status = "undefined"]

RefMove(s, p) ==
    IF tape_len \div 2 > p - TapeBase
    THEN [s EXCEPT !.ptr = p]
    ELSE [s EXCEPT !.ptr = p, !.status = "ret1"]

RECURSIVE RefStats(_, _, _, _)
RECURSIVE RefLoop(_, _, _)

RefStat(s, st, fuel) ==
    IF s.status # "running" THEN s
    ELSE CASE st.kind = "MoveL" -> RefMove(s, s.ptr - 8 * st.n)
           [] st.kind = "MoveR" -> RefMove(s, s.ptr + 8 * st.n)
           [] st.kind = "Add" ->
                IF s.ptr \notin DOMAIN s.mem THEN RefUndefined(s)
                ELSE [s EXCEPT !.mem[s.ptr] = AddW(@, st.n)]
           [] st.kind = "Sub" ->
                IF s.ptr \notin DOMAIN s.mem THEN RefUndefined(s)
                ELSE [s EXCEPT !.mem[s.ptr] = SubW(@, st.n)]
           [] st.kind = "Read" ->
                IF s.inpos > Len(s.in) THEN RefUndefined(s)
                ELSE IF s.in[s.inpos] = -1 THEN [s EXCEPT !.inpos = @ + 1]
                ELSE IF s.ptr \notin DOMAIN s.mem THEN RefUndefined(s)
                ELSE [s EXCEPT !.mem[s.ptr] = WithLowByte(@, s.in[s.inpos]),
                               !.inpos = @ + 1]
           [] st.kind = "Write" ->
                IF s.ptr \notin DOMAIN s.mem THEN RefUndefined(s)
                ELSE [s EXCEPT !.out = Append(@, LowByte(s.mem[s.ptr]))]
           [] st.kind = "Loop" -> RefLoop(s, st.block, fuel)

RefStats(s, stats, i, fuel) ==
    IF i > Len(stats) THEN s
    ELSE RefStats(RefStat(s, stats[i], fuel), stats, i + 1, fuel)

\* while cell != 0 { body }
RefLoop(s, block, fuel) ==
    IF s.status # "running" THEN s
    ELSE IF s.ptr \notin DOMAIN s.mem THEN RefUndefined(s)
    ELSE IF s.mem[s.ptr] = 0 THEN s
    ELSE IF fuel = 0 THEN [s EXCEPT !.status = "unfinished"]
    ELSE RefLoop(RefStats(s, block.stats, 1, fuel - 1), block, fuel - 1)

RefRun(p, m, in) ==
    LET s == RefStats([ptr |-> TapeBase, mem |-> m, in |-> in, inpos |-> 1,
                       out |-> <<>>, status |-> "running"],
                      p.stats, 1, MaxSteps)
    IN  IF s.status = "running" THEN [s EXCEPT !.status = "ret0"] ELSE s

\* C10: a run of the generated procedure that returns ends as the tree
\* does when each Loop is read as `while cell != 0 { body }`: the same
\* status, pointer, cells and output, having consumed the same input.
C10_LoopIsWhile ==
    (pc = "run" /\ status = "returned") =>
        LET r == RefRun(prog, mem0, inlog) IN
        /\ r.status = (IF retval = 0 THEN "ret0" ELSE "ret1")
        /\ retval \in {0, 1}
        /\ r.ptr = regs["ptr"]
        /\ r.mem = mem
        /\ r.out = stdout
        /\ r.inpos = Len(inlog) + 1

\* A nested loop whose body ran once, on a first cell that held 1.
C10_Witness ==
    /\ pc = "run" /\ status = "returned" /\ retval = 0
    /\ prog = NodeBlock(<<StLoop(NodeBlock(<<StLoop(NodeBlock(<<StSub(1)>>))>>))>>)
    /\ mem0 = SetCell(<<>>, 0, 1)
    /\ mem = SetCell(<<>>, 0, 0)

====
